---- MODULE Spec2Model ----
(***************************************************************************)
(* The agent registry of agents.py, the capability functions of gmail.py,  *)
(* google_calendar.py, x.py and spotify.py, and the session that run.py    *)
(* starts on them (swarm's run_demo_loop / Swarm.run dispatcher loop).     *)
(***************************************************************************)
EXTENDS Naturals, Sequences, FiniteSets, TLC

VARIABLES
    pc,                 \* position of the program (module-level statement of agents.py, then the session)
    functions,          \* Agent.functions of every agent (agents.py:127-215)
    active_agent,       \* the session's active agent
    message_history,    \* the session's most recent messages, oldest first
    context_variables,  \* the session's Context
    executed,           \* functions invoked by the last dispatcher iteration, in call order
    loop_turns,         \* model responses processed in the current external turn
    user_visible,       \* the reply handed to the user in the current external turn
    rendered,           \* the instructions last resolved: [agent, fields]
    sessions,           \* the conversations of one process: per session its state
    call,               \* the capability function invoked last on its own: [name, arg, outcome]
    returned,           \* what that invocation returned or raised
    spotify_client,     \* the lru_cache of get_spotify_client (spotify.py:15)
    auth_runs,          \* runs of the Spotify authentication procedure (spotify.py:20-49)
    requests,           \* what the last invocation asked of its backends and of the user, in order
    token_file          \* token.json beside credentials.json (common.py:25)

vars == <<pc, functions, active_agent, message_history, context_variables,
          executed, loop_turns, user_visible, rendered,
          sessions, call, returned, spotify_client, auth_runs, requests, token_file>>

\* the state no step of the single session of run.py touches
beside_session ==
    <<sessions, call, returned, spotify_client, auth_runs, requests, token_file>>

-----------------------------------------------------------------------------
(* Bounds of the model *)

\* most function calls one model response requests
MaxCalls == 2
\* most recent messages of the session the model keeps
MaxHistory == 3
\* model responses the model counts within one external turn
MaxLoopTurns == 2
\* most entries one function list gets when the registration step is repeated
MaxRegistrations == 4
\* most recent messages kept of each of several sessions
MaxSessionHistory == 2
\* runs of the Spotify authentication procedure the model counts
MaxAuthRuns == 2

-----------------------------------------------------------------------------
(* Agents (agents.py:127-176) *)

base_agent == "base_agent"
email_agent == "email_agent"
calendar_agent == "calendar_agent"
social_media_agent == "social_media_agent"
music_agent == "music_agent"
NoAgent == "None"

Specialists == {email_agent, calendar_agent, social_media_agent, music_agent}
Agents == {base_agent} \cup Specialists

\* Agent.name
AgentName(a) ==
    CASE a = base_agent -> "Base Assistant"
      [] a = email_agent -> "Email Assistant"
      [] a = calendar_agent -> "Calendar Assistant"
      [] a = social_media_agent -> "Social Media Assistant"
      [] a = music_agent -> "Music Assistant"

\* the functions= arguments of the five Agent(...) constructions
InitialFunctions ==
    [a \in Agents |->
        CASE a = base_agent -> << >>
          [] a = email_agent ->
                <<"read_emails", "get_email_by_id", "search_for_emails", "write_email">>
          [] a = calendar_agent ->
                <<"list_upcoming_events", "create_event", "delete_event", "update_event">>
          [] a = social_media_agent -> <<"send_tweet">>
          [] a = music_agent ->
                <<"play", "search", "get_current_track", "control_playback">>]

Range(s) == {s[i] : i \in DOMAIN s}

-----------------------------------------------------------------------------
(* Transfer functions (agents.py:180-203): zero-argument, return an Agent *)

\* variants of the transfer functions that return another agent than the one they name
transfer_to_email_agent_wrong == calendar_agent
transfer_to_music_agent_wrong == email_agent

transfer_to_email_agent == email_agent
transfer_to_calendar_agent == calendar_agent
transfer_to_social_media_agent == social_media_agent
transfer_to_music_agent == music_agent
\* variant of transfer_back_to_base_agent that answers differently when called again
transfer_back_to_base_agent_alternating ==
    IF returned.agent = base_agent THEN email_agent ELSE base_agent
transfer_back_to_base_agent == base_agent

TransferFunctions ==
    {"transfer_to_email_agent", "transfer_to_calendar_agent",
     "transfer_to_social_media_agent", "transfer_to_music_agent",
     "transfer_back_to_base_agent"}

CapabilityFunctions ==
    {"read_emails", "get_email_by_id", "search_for_emails", "write_email",
     "list_upcoming_events", "create_event", "delete_event", "update_event",
     "send_tweet", "play", "search", "get_current_track", "control_playback"}

\* the agent a transfer function returns
TransferTarget(f) ==
    CASE f = "transfer_to_email_agent" -> transfer_to_email_agent
      [] f = "transfer_to_calendar_agent" -> transfer_to_calendar_agent
      [] f = "transfer_to_social_media_agent" -> transfer_to_social_media_agent
      [] f = "transfer_to_music_agent" -> transfer_to_music_agent
      [] f = "transfer_back_to_base_agent" -> transfer_back_to_base_agent

\* variant of the base agent's list that also offers a capability function
BaseFunctions_with_capability ==
    <<"transfer_to_email_agent", "transfer_to_calendar_agent",
      "transfer_to_social_media_agent", "transfer_to_music_agent",
      "list_upcoming_events">>

\* base_agent.functions = [...] (agents.py:206-211)
BaseFunctions ==
    <<"transfer_to_email_agent", "transfer_to_calendar_agent",
      "transfer_to_social_media_agent", "transfer_to_music_agent">>

-----------------------------------------------------------------------------
(* Context and instruction resolution (agents.py:16-123) *)

\* dict.get(key, default)
Get(ctx, key, default) == IF key \in DOMAIN ctx THEN ctx[key] ELSE default

\* values datetime.now().isoformat() can take
Clock == {"t0", "t1"}

\* default_context with no environment variable set; current_datetime is the import time
default_context ==
    [user_name |-> "User",
     email |-> "unknown@example.com",
     preferred_language |-> "English",
     location |-> "N/A",
     twitter_username |-> "N/A",
     tweet_preferred_language |-> "English",
     current_datetime |-> "t0"]

\* variant of the base template that carries the time of import instead of the Context's
base_assistant_instructions_import_time(ctx, now) ==
    [user_name |-> Get(ctx, "user_name", "User"),
     preferred_language |-> Get(ctx, "preferred_language", "English"),
     location |-> Get(ctx, "location", "N/A"),
     current_datetime |-> "t0"]

\* The context-derived fields of each rendered prompt; now is datetime.now().isoformat().
base_assistant_instructions(ctx, now) ==
    [user_name |-> Get(ctx, "user_name", "User"),
     preferred_language |-> Get(ctx, "preferred_language", "English"),
     location |-> Get(ctx, "location", "N/A"),
     current_datetime |-> Get(ctx, "current_datetime", now)]

email_assistant_instructions(ctx, now) ==
    [user_name |-> Get(ctx, "user_name", "User"),
     email |-> Get(ctx, "email", "N/A"),
     preferred_language |-> Get(ctx, "preferred_language", "English")]

calendar_assistant_instructions(ctx, now) ==
    [user_name |-> Get(ctx, "user_name", "User"),
     current_datetime |-> Get(ctx, "current_datetime", now),
     preferred_language |-> Get(ctx, "preferred_language", "English"),
     location |-> Get(ctx, "location", "N/A")]

social_media_assistant_instructions(ctx, now) ==
    [user_name |-> Get(ctx, "user_name", "User"),
     twitter_username |-> Get(ctx, "twitter_username", "N/A"),
     tweet_preferred_language |-> Get(ctx, "tweet_preferred_language", "Polish")]

music_assistant_instructions(ctx, now) ==
    [user_name |-> Get(ctx, "user_name", "User"),
     preferred_language |-> Get(ctx, "preferred_language", "English")]

\* Agent.instructions(context_variables)
Instructions(a, ctx, now) ==
    CASE a = base_agent -> base_assistant_instructions(ctx, now)
      [] a = email_agent -> email_assistant_instructions(ctx, now)
      [] a = calendar_agent -> calendar_assistant_instructions(ctx, now)
      [] a = social_media_agent -> social_media_assistant_instructions(ctx, now)
      [] a = music_agent -> music_assistant_instructions(ctx, now)

\* the prompts resolving a's instructions can give, over the values of the clock
Resolve(a, ctx) == {[agent |-> a, fields |-> Instructions(a, ctx, now)] : now \in Clock}

NotRendered == [agent |-> NoAgent, fields |-> << >>]

-----------------------------------------------------------------------------
(* Capability functions: what each returns or raises, given the outcome of  *)
(* its authentication step and of its backend request                       *)

Outcomes == {"ok", "backend_error", "auth_error"}

\* the return paths of each function: "empty" is the backend answering with no item,
\* "invalid_argument" an argument the function itself rejects
PathsOf(name) ==
    CASE name \in {"read_emails", "search_for_emails", "get_current_track"} ->
            Outcomes \cup {"empty"}
      [] name \in {"list_upcoming_events", "play", "search"} ->
            Outcomes \cup {"empty", "invalid_argument"}
      [] name = "control_playback" -> Outcomes \cup {"invalid_argument"}
      [] name \in {"write_email", "get_email_by_id", "create_event", "delete_event",
                   "update_event", "send_tweet"} -> Outcomes
      [] OTHER -> {"ok"}

NoArg == "-"
EmailIds == {"abc123", "e2"}

\* a returned text payload <result><tag>...mentions...</tag></result>
Str(tag, mentions) ==
    [kind |-> "str", tag |-> tag, mentions |-> mentions, agent |-> NoAgent]
\* a returned Agent
AgentRef(a) == [kind |-> "agent", tag |-> "-", mentions |-> NoArg, agent |-> a]
\* an exception leaving the function
Raise == [kind |-> "raise", tag |-> "-", mentions |-> NoArg, agent |-> NoAgent]

\* no capability function invoked on its own yet
NoCall == [name |-> "-", arg |-> NoArg, outcome |-> "-"]
NotReturned == [kind |-> "-", tag |-> "-", mentions |-> NoArg, agent |-> NoAgent]
\* get_spotify_client has cached nothing
NoClient == "none"
\* os.path.exists(token_path) is False
NoTokenFile ==
    [file |-> "absent", token |-> FALSE, expired |-> FALSE, refresh_token |-> FALSE]

\* the conversations one process can hold side by side
SessionIds == {1, 2}
NotStarted ==
    [pc |-> "not_started", active_agent |-> NoAgent, message_history |-> << >>,
     context_variables |-> << >>]
NoSessions == [s \in SessionIds |-> NotStarted]

\* gmail.py: authenticate_gmail() is called before the try block
read_emails(arg, outcome) ==
    CASE outcome = "auth_error" -> Raise
      [] outcome = "backend_error" -> Str("error", NoArg)
      [] outcome = "empty" -> Str("message", NoArg)
      [] OTHER -> Str("data", NoArg)

search_for_emails(arg, outcome) ==
    CASE outcome = "auth_error" -> Raise
      [] outcome = "backend_error" -> Str("error", NoArg)
      [] outcome = "empty" -> Str("message", NoArg)
      [] OTHER -> Str("data", NoArg)

write_email(arg, outcome) ==
    CASE outcome = "auth_error" -> Raise
      [] outcome = "backend_error" -> Str("error", NoArg)
      [] OTHER -> Str("message", NoArg)

\* variant of get_email_by_id that hands back the base agent when the backend fails
get_email_by_id_returns_agent(email_id, outcome) ==
    CASE outcome = "auth_error" -> Raise
      [] outcome = "backend_error" -> AgentRef(base_agent)
      [] OTHER -> Str("data", email_id)

\* variant of get_email_by_id whose error text leaves the id out
get_email_by_id_generic_error(email_id, outcome) ==
    CASE outcome = "auth_error" -> Raise
      [] outcome = "backend_error" -> Str("error", NoArg)
      [] OTHER -> Str("data", email_id)

get_email_by_id(email_id, outcome) ==
    CASE outcome = "auth_error" -> Raise
      [] outcome = "backend_error" -> Str("error", email_id)
      [] OTHER -> Str("data", email_id)

\* google_calendar.py: authenticate_gmail() is called before the try block
list_upcoming_events(arg, outcome) ==
    CASE outcome = "auth_error" -> Raise
      [] outcome = "backend_error" -> Str("error", NoArg)
      [] outcome = "invalid_argument" -> Str("error", NoArg)
      [] outcome = "empty" -> Str("message", NoArg)
      [] OTHER -> Str("data", NoArg)

create_event(arg, outcome) ==
    CASE outcome = "auth_error" -> Raise
      [] outcome = "backend_error" -> Str("error", NoArg)
      [] OTHER -> Str("message", NoArg)

delete_event(arg, outcome) ==
    CASE outcome = "auth_error" -> Raise
      [] outcome = "backend_error" -> Str("error", NoArg)
      [] OTHER -> Str("message", NoArg)

update_event(arg, outcome) ==
    CASE outcome = "auth_error" -> Raise
      [] outcome = "backend_error" -> Str("error", NoArg)
      [] OTHER -> Str("message", NoArg)

\* x.py: authenticate_twitter() is called before the try block
send_tweet(arg, outcome) ==
    CASE outcome = "auth_error" -> Raise
      [] outcome = "backend_error" -> Str("error", NoArg)
      [] OTHER -> Str("message", NoArg)

\* spotify.py: get_spotify_client() re-raises and is called before the try block
play(arg, outcome) ==
    CASE outcome = "auth_error" -> Raise
      [] outcome = "backend_error" -> Str("error", NoArg)
      [] outcome = "invalid_argument" -> Str("error", NoArg)
      [] outcome = "empty" -> Str("error", NoArg)
      [] OTHER -> Str("message", NoArg)

\* a function that ends without a return statement hands back None
NoneValue == [kind |-> "none", tag |-> "-", mentions |-> NoArg, agent |-> NoAgent]

\* variant of search whose success path builds the result and does not return it
search_without_return(arg, outcome) ==
    CASE outcome = "auth_error" -> Raise
      [] outcome = "backend_error" -> Str("error", NoArg)
      [] outcome = "invalid_argument" -> Str("error", NoArg)
      [] outcome = "empty" -> Str("message", NoArg)
      [] OTHER -> NoneValue

search(arg, outcome) ==
    CASE outcome = "auth_error" -> Raise
      [] outcome = "backend_error" -> Str("error", NoArg)
      [] outcome = "invalid_argument" -> Str("error", NoArg)
      [] outcome = "empty" -> Str("message", NoArg)
      [] OTHER -> Str("data", NoArg)

get_current_track(arg, outcome) ==
    CASE outcome = "auth_error" -> Raise
      [] outcome = "backend_error" -> Str("error", NoArg)
      [] outcome = "empty" -> Str("message", NoArg)
      [] OTHER -> Str("data", NoArg)

control_playback(arg, outcome) ==
    CASE outcome = "auth_error" -> Raise
      [] outcome = "backend_error" -> Str("error", NoArg)
      [] outcome = "invalid_argument" -> Str("error", NoArg)
      [] OTHER -> Str("message", NoArg)

\* function_map[name](**args): the function a name of a function list stands for
Invoke(name, arg, outcome) ==
    CASE name = "read_emails" -> read_emails(arg, outcome)
      [] name = "get_email_by_id" -> get_email_by_id(arg, outcome)
      [] name = "search_for_emails" -> search_for_emails(arg, outcome)
      [] name = "write_email" -> write_email(arg, outcome)
      [] name = "list_upcoming_events" -> list_upcoming_events(arg, outcome)
      [] name = "create_event" -> create_event(arg, outcome)
      [] name = "delete_event" -> delete_event(arg, outcome)
      [] name = "update_event" -> update_event(arg, outcome)
      [] name = "send_tweet" -> send_tweet(arg, outcome)
      [] name = "play" -> play(arg, outcome)
      [] name = "search" -> search(arg, outcome)
      [] name = "get_current_track" -> get_current_track(arg, outcome)
      [] name = "control_playback" -> control_playback(arg, outcome)
      [] name \in TransferFunctions -> AgentRef(TransferTarget(name))

\* variant in which transfer_to_email_agent wires the Email Assistant's list when called
RegistryAfter_rewiring(name, fns) ==
    IF name = "transfer_to_email_agent"
    THEN [fns EXCEPT ![email_agent] = <<"read_emails", "transfer_back_to_base_agent">>]
    ELSE fns

\* the Agent objects' function lists after the function called name has run: no function
\* body assigns to or appends to an Agent's functions (the transfer functions only return)
RegistryAfter(name, fns) == fns

\* variant in which write_email stores the sender address it fell back to
ContextAfter_setdefault(name, ctx) ==
    IF name = "write_email" /\ "email" \notin DOMAIN ctx
    THEN [k \in DOMAIN ctx \cup {"email"} |->
             IF k = "email" THEN "unknown@example.com" ELSE ctx[k]]
    ELSE ctx

\* the Context a function was handed, after it has run: the functions log it, write_email
\* reads user_name and email with .get (gmail.py:137-138), none assigns to it
ContextAfter(name, ctx) == ctx

\* the effects of the functions called, in call order
RECURSIVE RegistryAfterAll(_, _)
RegistryAfterAll(names, fns) ==
    IF names = << >> THEN fns
    ELSE RegistryAfterAll(Tail(names), RegistryAfter(Head(names), fns))

RECURSIVE ContextAfterAll(_, _)
ContextAfterAll(names, ctx) ==
    IF names = << >> THEN ctx
    ELSE ContextAfterAll(Tail(names), ContextAfter(Head(names), ctx))

-----------------------------------------------------------------------------
(* The dispatcher: swarm's Swarm.run / handle_tool_calls / run_demo_loop,   *)
(* which run.py:16 and agents.py:227 call                                   *)

Msg(role, name, content, calls) ==
    [role |-> role, name |-> name, content |-> content, tool_calls |-> calls]

UserMsg == Msg("user", "-", <<"text">>, << >>)
\* a plain-text reply of agent a
ReplyMsg(a) == Msg("assistant", AgentName(a), <<"reply">>, << >>)
\* a model response of agent a that requests calls
CallsMsg(a, calls) == Msg("assistant", AgentName(a), << >>, calls)
\* the observation of a call of function f
ToolMsg(f, content) == Msg("tool", f, content, << >>)

\* handle_function_result: an Agent becomes {"assistant": agent.name}, anything else str(result)
ResultValue(raw) ==
    IF raw.kind = "agent" THEN <<"assistant", AgentName(raw.agent)>>
    ELSE <<raw.tag, raw.mentions>>

NotFound(f) == <<"Error", "Tool not found", f>>

EmptyPartial ==
    [messages |-> << >>, agent |-> NoAgent, executed |-> << >>, raised |-> FALSE]

\* handle_tool_calls from call i on: a name missing from the function map gets an
\* error observation and is skipped; a found function is invoked, its value appended,
\* a returned Agent kept; an exception leaves the loop
RECURSIVE HandleFrom(_, _, _, _, _)
HandleFrom(calls, outs, fns, i, acc) ==
    IF i > Len(calls) \/ acc.raised THEN acc
    ELSE LET c == calls[i] IN
         IF c.name \notin Range(fns)
         THEN HandleFrom(calls, outs, fns, i + 1,
                  [acc EXCEPT !.messages = Append(@, ToolMsg(c.name, NotFound(c.name)))])
         ELSE LET raw == Invoke(c.name, c.arg, outs[i]) IN
              IF raw.kind = "raise"
              THEN [acc EXCEPT !.executed = Append(@, c.name), !.raised = TRUE]
              ELSE HandleFrom(calls, outs, fns, i + 1,
                      [messages |-> Append(acc.messages, ToolMsg(c.name, ResultValue(raw))),
                       agent |-> IF raw.kind = "agent" THEN raw.agent ELSE acc.agent,
                       executed |-> Append(acc.executed, c.name),
                       raised |-> FALSE])

handle_tool_calls(calls, outs, fns) == HandleFrom(calls, outs, fns, 1, EmptyPartial)

\* variant of the append that starts the history over with the new message
HistAppend_replacing(h, m) == <<m>>

\* list.append on the history; the model keeps its most recent MaxHistory messages
HistAppend(h, m) ==
    LET all == Append(h, m) IN IF Len(all) > MaxHistory THEN Tail(all) ELSE all

RECURSIVE HistExtend(_, _)
HistExtend(h, ms) ==
    IF ms = << >> THEN h ELSE HistExtend(HistAppend(h, Head(ms)), Tail(ms))

CountUp(n) == IF n < MaxLoopTurns THEN n + 1 ELSE n

\* names the model may request that are in no list of the active agent
ForeignRequests == {"list_upcoming_events", "no_such_function"}

ArgsOf(f) == IF f = "get_email_by_id" THEN EmailIds ELSE {NoArg}

CallsOf(a) ==
    UNION {{[name |-> f, arg |-> x] : x \in ArgsOf(f)} :
              f \in Range(functions[a]) \cup ForeignRequests}

CallLists(a) == UNION {[1..n -> CallsOf(a)] : n \in 1..MaxCalls}

\* one outcome per call; only a call that reaches a capability function has one
OutcomeVectors(calls, fns) ==
    {o \in [DOMAIN calls -> Outcomes] :
        \A i \in DOMAIN calls :
            (calls[i].name \notin Range(fns) \/ calls[i].name \in TransferFunctions)
                => o[i] = "ok"}

-----------------------------------------------------------------------------
(* Registry construction: the module-level statements agents.py:206-215 *)

\* variant of the registration that puts the transfer in front of the list
RegisterTransferBack_in_front(fns) == <<"transfer_back_to_base_agent">> \o fns

\* functions.append(transfer_back_to_base_agent)
RegisterTransferBack(fns) == Append(fns, "transfer_back_to_base_agent")

\* the specialist the statement at pc appends to, and the statement after it
AppendTarget(p) ==
    CASE p = "L212" -> email_agent
      [] p = "L213" -> calendar_agent
      [] p = "L214" -> social_media_agent
      [] p = "L215" -> music_agent

AfterAppend(p) ==
    CASE p = "L212" -> "L213"
      [] p = "L213" -> "L214"
      [] p = "L214" -> "L215"
      [] p = "L215" -> "main"

AssignBaseFunctions ==
    /\ pc = "L206"
    /\ functions' = [functions EXCEPT ![base_agent] = BaseFunctions]
    /\ pc' = "L212"
    /\ UNCHANGED <<active_agent, message_history, context_variables, executed,
                   loop_turns, user_visible, rendered>>
    /\ UNCHANGED beside_session

AppendTransferBack ==
    /\ pc \in {"L212", "L213", "L214", "L215"}
    /\ functions' = [functions EXCEPT
                        ![AppendTarget(pc)] = RegisterTransferBack(@)]
    /\ pc' = AfterAppend(pc)
    /\ UNCHANGED <<active_agent, message_history, context_variables, executed,
                   loop_turns, user_visible, rendered>>
    /\ UNCHANGED beside_session

\* the registration statement of specialist s executed once more
RerunAppendTransferBack(s) ==
    /\ pc = "main"
    /\ Len(functions[s]) < Len(InitialFunctions[s]) + MaxRegistrations
    /\ functions' = [functions EXCEPT ![s] = RegisterTransferBack(@)]
    /\ UNCHANGED <<pc, active_agent, message_history, context_variables, executed,
                   loop_turns, user_visible, rendered>>
    /\ UNCHANGED beside_session

-----------------------------------------------------------------------------
(* The session (run.py:16) *)

\* variant of the entry point that starts the loop on the Email Assistant
StartSession_on_specialist ==
    /\ pc = "main"
    /\ active_agent' = email_agent
    /\ message_history' = << >>
    /\ context_variables' = default_context
    /\ pc' = "awaiting_user"
    /\ UNCHANGED <<functions, executed, loop_turns, user_visible, rendered>>
    /\ UNCHANGED beside_session

\* run_demo_loop(base_agent, context_variables=default_context): messages = [], agent = starting_agent
StartSession ==
    /\ pc = "main"
    /\ active_agent' = base_agent
    /\ message_history' = << >>
    /\ context_variables' = default_context
    /\ pc' = "awaiting_user"
    /\ UNCHANGED <<functions, executed, loop_turns, user_visible, rendered>>
    /\ UNCHANGED beside_session

\* the user types a message; Swarm.run starts on it
UserInput ==
    /\ pc = "awaiting_user"
    /\ message_history' = HistAppend(message_history, UserMsg)
    /\ loop_turns' = 0
    /\ user_visible' = "none"
    /\ executed' = << >>
    /\ pc' = "awaiting_model"
    /\ UNCHANGED <<functions, active_agent, context_variables, rendered>>
    /\ UNCHANGED beside_session

\* one iteration of Swarm.run in which the model answers in plain text: the reply is
\* appended and the loop ends
ModelReplies ==
    /\ pc = "awaiting_model"
    /\ \E prompt \in Resolve(active_agent, context_variables) : rendered' = prompt
    /\ message_history' = HistAppend(message_history, ReplyMsg(active_agent))
    /\ user_visible' = "reply"
    /\ executed' = << >>
    /\ loop_turns' = CountUp(loop_turns)
    /\ pc' = "awaiting_user"
    /\ UNCHANGED <<functions, active_agent, context_variables>>
    /\ UNCHANGED beside_session

\* one iteration of Swarm.run in which the model requests calls: the response is appended,
\* the calls are handled against the active agent's function list, their observations are
\* appended and a returned Agent becomes the active agent; the loop has no turn bound
\* (max_turns is not passed), so it goes on
ModelRequestsCalls ==
    /\ pc = "awaiting_model"
    /\ \E prompt \in Resolve(active_agent, context_variables) : rendered' = prompt
    /\ \E calls \in CallLists(active_agent) :
       \E outs \in OutcomeVectors(calls, functions[active_agent]) :
          LET partial_response == handle_tool_calls(calls, outs, functions[active_agent])
              requested == HistAppend(message_history, CallsMsg(active_agent, calls))
          IN /\ executed' = partial_response.executed
             /\ functions' = RegistryAfterAll(partial_response.executed, functions)
             /\ context_variables' =
                   ContextAfterAll(partial_response.executed, context_variables)
             /\ IF partial_response.raised
                THEN /\ message_history' = requested
                     /\ active_agent' = active_agent
                     /\ pc' = "crashed"
                ELSE /\ message_history' = HistExtend(requested, partial_response.messages)
                     /\ active_agent' = IF partial_response.agent # NoAgent
                                        THEN partial_response.agent
                                        ELSE active_agent
                     /\ pc' = "awaiting_model"
    /\ loop_turns' = CountUp(loop_turns)
    /\ UNCHANGED user_visible
    /\ UNCHANGED beside_session

-----------------------------------------------------------------------------
(* Several conversations in one process: each is a run_demo_loop of its own   *)
(* (its messages and agent are locals of the loop, its Context the copy that  *)
(* Swarm.run takes of default_context); the Agent objects are the module's    *)

\* a session's history keeps its most recent MaxSessionHistory messages
SessionAppend(h, m) ==
    LET all == Append(h, m) IN IF Len(all) > MaxSessionHistory THEN Tail(all) ELSE all

RECURSIVE SessionExtend(_, _)
SessionExtend(h, ms) ==
    IF ms = << >> THEN h ELSE SessionExtend(SessionAppend(h, Head(ms)), Tail(ms))

\* the responses the model of a session may send: one call of a function of a's list
SessionCalls(a) == {<<c>> : c \in {r \in CallsOf(a) : r.name \in Range(functions[a])}}

\* what a step of a session leaves alone, the sessions and the function lists aside
outside_sessions ==
    <<pc, active_agent, message_history, context_variables, executed, loop_turns,
      user_visible, rendered, call, returned, spotify_client, auth_runs,
      requests, token_file>>

\* run_demo_loop(base_agent, context_variables=default_context) for session s
SessionStart(s) ==
    /\ pc = "main"
    /\ sessions[s].pc = "not_started"
    /\ sessions' = [sessions EXCEPT ![s] =
                       [pc |-> "awaiting_user", active_agent |-> base_agent,
                        message_history |-> << >>,
                        context_variables |-> default_context]]
    /\ UNCHANGED <<functions, outside_sessions>>

SessionUserInput(s) ==
    /\ sessions[s].pc = "awaiting_user"
    /\ sessions' = [sessions EXCEPT
                       ![s].message_history = SessionAppend(@, UserMsg),
                       ![s].pc = "awaiting_model"]
    /\ UNCHANGED <<functions, outside_sessions>>

SessionModelReplies(s) ==
    /\ sessions[s].pc = "awaiting_model"
    /\ sessions' = [sessions EXCEPT
                       ![s].message_history =
                           SessionAppend(@, ReplyMsg(sessions[s].active_agent)),
                       ![s].pc = "awaiting_user"]
    /\ UNCHANGED <<functions, outside_sessions>>

SessionModelRequestsCalls(s) ==
    /\ sessions[s].pc = "awaiting_model"
    /\ LET agent == sessions[s].active_agent IN
       \E calls \in SessionCalls(agent) :
       \E outs \in OutcomeVectors(calls, functions[agent]) :
          LET partial_response == handle_tool_calls(calls, outs, functions[agent])
              requested == SessionAppend(sessions[s].message_history,
                                         CallsMsg(agent, calls))
          IN /\ functions' = RegistryAfterAll(partial_response.executed, functions)
             /\ sessions' = [sessions EXCEPT ![s] =
                   [pc |-> IF partial_response.raised THEN "crashed"
                           ELSE "awaiting_model",
                    active_agent |->
                        IF ~partial_response.raised /\ partial_response.agent # NoAgent
                        THEN partial_response.agent ELSE agent,
                    message_history |->
                        IF partial_response.raised THEN requested
                        ELSE SessionExtend(requested, partial_response.messages),
                    context_variables |->
                        ContextAfterAll(partial_response.executed,
                                        sessions[s].context_variables)]]
    /\ UNCHANGED outside_sessions

\* the entries of the Context that get replaced between two external turns, and the
\* values they get
RefreshedKeys == {"current_datetime", "preferred_language"}
RefreshedValues(key) == IF key = "current_datetime" THEN Clock ELSE {"English", "Polish"}

\* the Context of the session is replaced by one with a new value for key
ReplaceContext(key, value) ==
    /\ pc = "awaiting_user"
    /\ value # context_variables[key]
    /\ context_variables' = [context_variables EXCEPT ![key] = value]
    /\ UNCHANGED <<pc, functions, active_agent, message_history, executed, loop_turns,
                   user_visible, rendered>>
    /\ UNCHANGED beside_session

-----------------------------------------------------------------------------
(* Instruction resolution on its own, for any Context *)

ContextKeys ==
    {"user_name", "email", "preferred_language", "location", "twitter_username",
     "tweet_preferred_language", "current_datetime"}

ContextValues == {"set", "other"}

\* every Context over the known keys, the empty one included
Contexts == UNION {[K -> ContextValues] : K \in SUBSET ContextKeys}

ResolveInstructions(a, now) ==
    /\ pc = "render"
    /\ rendered' = [agent |-> a, fields |-> Instructions(a, context_variables, now)]
    /\ UNCHANGED <<pc, functions, active_agent, message_history, context_variables,
                   executed, loop_turns, user_visible>>
    /\ UNCHANGED beside_session

-----------------------------------------------------------------------------
(* The functions called on their own, in any order, with any Context *)

SpotifyFunctions == {"play", "search", "get_current_track", "control_playback"}

\* @lru_cache(maxsize=1) get_spotify_client(): a cached client is returned as it is;
\* otherwise the authentication procedure runs, and only a returned client is cached (an
\* exception is re-raised, spotify.py:50-52, and lru_cache stores no exception)
get_spotify_client(cache, auth_fails) ==
    IF cache # NoClient THEN [raised |-> FALSE, cache |-> cache, runs |-> 0]
    ELSE IF auth_fails THEN [raised |-> TRUE, cache |-> NoClient, runs |-> 1]
    ELSE [raised |-> FALSE, cache |-> "sp", runs |-> 1]

CountAuth(n, runs) == IF n + runs > MaxAuthRuns THEN MaxAuthRuns ELSE n + runs

\* the Contexts the functions are called with: default_context, and every Context over
\* the keys write_email reads
CallContexts ==
    {default_context} \cup {c \in Contexts : DOMAIN c \subseteq {"user_name", "email"}}

\* name(context_variables, arg) with the given outcome of its authentication step and
\* backend request
CallFunction(name, arg, outcome) ==
    /\ pc = "calls"
    /\ IF name \in SpotifyFunctions
       THEN LET got == get_spotify_client(spotify_client, outcome = "auth_error")
            IN /\ got.raised = (outcome = "auth_error")
               /\ spotify_client' = got.cache
               /\ auth_runs' = CountAuth(auth_runs, got.runs)
       ELSE UNCHANGED <<spotify_client, auth_runs>>
    /\ call' = [name |-> name, arg |-> arg, outcome |-> outcome]
    /\ returned' = Invoke(name, arg, outcome)
    /\ functions' = RegistryAfter(name, functions)
    /\ context_variables' = ContextAfter(name, context_variables)
    /\ UNCHANGED <<pc, active_agent, message_history, executed, loop_turns,
                   user_visible, rendered, sessions, requests, token_file>>

-----------------------------------------------------------------------------
(* What a function asks of its backends and of the user *)

\* a key the record does not hold, an argument left at its default None
Absent == "<absent>"
None == "None"

\* a calendar event as events().get returns it and events().update takes it
NoEvent ==
    [summary |-> Absent,
     start |-> [dateTime |-> Absent, timeZone |-> Absent],
     end |-> [dateTime |-> Absent, timeZone |-> Absent],
     description |-> Absent, location |-> Absent, attendees |-> << >>]

\* one request: the operation, the query string it carries as its terms in order, and
\* the event it carries or answers with
Req(op) == [op |-> op, q |-> << >>, body |-> NoEvent]
ReqQuery(op, q) == [op |-> op, q |-> q, body |-> NoEvent]
ReqEvent(op, event) == [op |-> op, q |-> << >>, body |-> event]
Reqs(ops) == [i \in DOMAIN ops |-> Req(ops[i])]

\* the operations of a sequence of requests
Ops(rs) == {rs[i].op : i \in DOMAIN rs}

-----------------------------------------------------------------------------
(* Authentication with Google (common.py) *)

\* a token file Credentials.from_authorized_user_file rejects with ValueError
MalformedTokenFile ==
    [file |-> "malformed", token |-> FALSE, expired |-> FALSE, refresh_token |-> FALSE]

\* a token file holding credentials: with or without an access token, expired or not,
\* with or without a refresh token
StoredCredentials ==
    {[file |-> "creds", token |-> t, expired |-> e, refresh_token |-> r] :
        t \in BOOLEAN, e \in BOOLEAN, r \in BOOLEAN}

TokenFiles == {NoTokenFile, MalformedTokenFile} \cup StoredCredentials

\* Credentials.valid: a token that has not expired
Valid(creds) == creds.token /\ ~creds.expired

\* what the surroundings of one authentication do: credentials.json can be read, the
\* refresh request succeeds, the code the user types is accepted, and the granted
\* credentials carry a refresh token
AuthEnvs ==
    {[secrets_ok |-> TRUE, refresh_ok |-> TRUE, code_ok |-> TRUE, grants_refresh |-> TRUE],
     [secrets_ok |-> TRUE, refresh_ok |-> TRUE, code_ok |-> TRUE, grants_refresh |-> FALSE],
     [secrets_ok |-> TRUE, refresh_ok |-> FALSE, code_ok |-> TRUE, grants_refresh |-> TRUE],
     [secrets_ok |-> TRUE, refresh_ok |-> TRUE, code_ok |-> FALSE, grants_refresh |-> TRUE],
     [secrets_ok |-> FALSE, refresh_ok |-> TRUE, code_ok |-> TRUE, grants_refresh |-> TRUE]}

\* flow.credentials after fetch_token
Granted(env) ==
    [file |-> "creds", token |-> TRUE, expired |-> FALSE, refresh_token |-> env.grants_refresh]

\* the interactive branch (common.py:41-62) on the token file left, after the requests
\* already made
Authorize(left, before, env, save) ==
    IF ~env.secrets_ok
    THEN [raised |-> TRUE, token_file |-> left,
          requests |-> before \o Reqs(<<"from_client_secrets_file">>)]
    ELSE IF ~env.code_ok
    THEN [raised |-> TRUE, token_file |-> left,
          requests |-> before \o Reqs(<<"from_client_secrets_file", "input", "fetch_token">>)]
    ELSE IF save
    THEN [raised |-> FALSE, token_file |-> Granted(env),
          requests |-> before \o Reqs(<<"from_client_secrets_file", "input", "fetch_token",
                                         "write_token">>)]
    ELSE [raised |-> FALSE, token_file |-> left,
          requests |-> before \o Reqs(<<"from_client_secrets_file", "input", "fetch_token">>)]

\* variant of authenticate_gmail that does not save the credentials it was granted
authenticate_gmail_without_save(tf, env) ==
    CASE tf.file = "absent" -> Authorize(tf, << >>, env, FALSE)
      [] tf.file = "malformed" -> Authorize(NoTokenFile, Reqs(<<"os.remove">>), env, FALSE)
      [] tf.file = "creds" /\ Valid(tf) ->
            [raised |-> FALSE, token_file |-> tf, requests |-> << >>]
      [] tf.file = "creds" /\ ~Valid(tf) /\ tf.expired /\ tf.refresh_token ->
            [raised |-> ~env.refresh_ok, token_file |-> tf, requests |-> Reqs(<<"refresh">>)]
      [] OTHER -> Authorize(tf, << >>, env, FALSE)

\* authenticate_gmail(): the token file it leaves, what it asked for on the way, and
\* whether an exception left it
authenticate_gmail(tf, env) ==
    CASE tf.file = "absent" -> Authorize(tf, << >>, env, TRUE)
      [] tf.file = "malformed" -> Authorize(NoTokenFile, Reqs(<<"os.remove">>), env, TRUE)
      [] tf.file = "creds" /\ Valid(tf) ->
            [raised |-> FALSE, token_file |-> tf, requests |-> << >>]
      [] tf.file = "creds" /\ ~Valid(tf) /\ tf.expired /\ tf.refresh_token ->
            [raised |-> ~env.refresh_ok, token_file |-> tf, requests |-> Reqs(<<"refresh">>)]
      [] OTHER -> Authorize(tf, << >>, env, TRUE)

-----------------------------------------------------------------------------
(* The capability functions with the requests they send *)

\* Python's truth test of a str argument: None and '' are false
Truthy(v) == v \notin {None, ""}

\* the arguments of a call, each parameter at its default
NoArgs ==
    [unread |-> FALSE, date_filter |-> None, query |-> None, content_type |-> None,
     action |-> None, provided |-> {},
     summary |-> "", start_time |-> "", end_time |-> "", description |-> "",
     location |-> "", attendees |-> << >>]
NoBackendCall == [name |-> "-", arg |-> NoArgs, outcome |-> "-"]

DateFilters == {None, "newer_than:2d", "older_than:1w"}
Queries == {"from:boss", "invoice"}

\* gmail.py:30-32: the q of read_emails, as its terms in order
read_emails_query(unread, date_filter) ==
    (IF unread THEN <<"is:unread">> ELSE << >>)
        \o (IF Truthy(date_filter) THEN <<date_filter>> ELSE << >>)

\* gmail.py:86-90: the q of search_for_emails
search_for_emails_query(query, date_filter) == <<query>>

\* the outcome of the body of a function that asked its backend: an exception there is
\* caught and returned as an error
PathOf(outcome) ==
    IF outcome \in {"list_error", "get_error", "update_error", "search_error",
                    "playback_error"}
    THEN "backend_error" ELSE outcome

\* google_calendar.py:142-156: the parameters of update_event after event_id
EventFields ==
    {"summary", "start_time", "end_time", "description", "location", "attendees"}

\* str.split(','): the pieces between the commas of a string given as its tokens
RECURSIVE SplitFrom(_, _, _)
SplitFrom(str, i, piece) ==
    IF i > Len(str) THEN <<piece>>
    ELSE IF str[i] = "," THEN <<piece>> \o SplitFrom(str, i + 1, << >>)
    ELSE SplitFrom(str, i + 1, Append(piece, str[i]))
Split(str) == SplitFrom(str, 1, << >>)

\* google_calendar.py:166-177: the event after the assignments of update_event
update_event_body(event, a) ==
    LET given(f) == f \in a.provided
        pieces == Split(a.attendees)
    IN [summary |-> IF given("summary") /\ Truthy(a.summary)
                    THEN a.summary ELSE event.summary,
        start |-> IF given("start_time") /\ Truthy(a.start_time)
                  THEN [event.start EXCEPT !.dateTime = a.start_time] ELSE event.start,
        end |-> IF given("end_time") /\ Truthy(a.end_time)
                THEN [event.end EXCEPT !.dateTime = a.end_time] ELSE event.end,
        description |-> IF given("description") /\ Truthy(a.description)
                        THEN a.description ELSE event.description,
        location |-> IF given("location") /\ Truthy(a.location)
                     THEN a.location ELSE event.location,
        attendees |-> IF given("attendees") /\ Len(a.attendees) > 0
                      THEN [i \in DOMAIN pieces |-> [email |-> pieces[i]]]
                      ELSE event.attendees]

\* the events a calendar holds: one with every field, one with the required ones only
Events ==
    {[summary |-> "Standup",
      start |-> [dateTime |-> "09:00", timeZone |-> "UTC"],
      end |-> [dateTime |-> "09:15", timeZone |-> "UTC"],
      description |-> "daily", location |-> "room 1",
      attendees |-> <<[email |-> <<"ann@x.org">>]>>],
     [summary |-> "Lunch",
      start |-> [dateTime |-> "12:00", timeZone |-> "UTC"],
      end |-> [dateTime |-> "13:00", timeZone |-> "UTC"],
      description |-> Absent, location |-> Absent, attendees |-> << >>]}

\* the values the model passes for a parameter of update_event
GivenValues(f) ==
    IF f = "attendees" THEN {<< >>, <<"bob@x.org", ",", "eve@x.org">>}
    ELSE IF f \in {"start_time", "end_time"} THEN {"", "10:00"}
    ELSE {"", "new"}

\* update_event called with no field, with one field, and with every field
UpdateArgs ==
    {NoArgs}
    \cup UNION {{[NoArgs EXCEPT !.provided = {f}, ![f] = v] : v \in GivenValues(f)} :
                 f \in EventFields}
    \cup {[NoArgs EXCEPT !.provided = EventFields, !.summary = "new",
                          !.start_time = "10:00", !.end_time = "11:00",
                          !.description = "new", !.location = "new",
                          !.attendees = <<"bob@x.org", ",", "eve@x.org">>]}

\* spotify.py:68 and spotify.py:176-189
valid_types == {"track", "album", "artist", "playlist"}
ContentTypes == valid_types \cup {"podcast"}
PlaybackActions == {"play", "pause", "next", "previous", "stop"}

\* variant of play that searches before it validates the content type
play_requests_search_first(content_type, outcome) ==
    IF content_type \notin valid_types THEN Reqs(<<"search">>)
    ELSE IF outcome \in {"search_error", "empty"} THEN Reqs(<<"search">>)
    ELSE Reqs(<<"search", "start_playback">>)

\* spotify.py:66-124: what play asks of the Spotify client
play_requests(content_type, outcome) ==
    IF content_type \notin valid_types THEN << >>
    ELSE IF outcome \in {"search_error", "empty"} THEN Reqs(<<"search">>)
    ELSE Reqs(<<"search", "start_playback">>)

\* the return path play takes
play_path(content_type, outcome) ==
    IF content_type \notin valid_types THEN "invalid_argument" ELSE PathOf(outcome)

\* spotify.py:176-189: what control_playback asks of the Spotify client
control_playback_requests(action) ==
    CASE action = "play" -> Reqs(<<"start_playback">>)
      [] action = "pause" -> Reqs(<<"pause_playback">>)
      [] action = "next" -> Reqs(<<"next_track">>)
      [] action = "previous" -> Reqs(<<"previous_track">>)
      [] OTHER -> << >>

control_playback_path(action, outcome) ==
    IF action \notin {"play", "pause", "next", "previous"}
    THEN "invalid_argument" ELSE PathOf(outcome)

\* what a step on the backends leaves alone
beside_backend ==
    <<pc, functions, active_agent, message_history, context_variables, executed,
      loop_turns, user_visible, rendered, sessions>>

\* authenticate_gmail() called on its own
AuthenticateGmail(env) ==
    /\ pc = "backend"
    /\ LET a == authenticate_gmail(token_file, env)
       IN /\ token_file' = a.token_file
          /\ requests' = a.requests
          /\ returned' = IF a.raised THEN Raise ELSE NoneValue
    /\ call' = [name |-> "authenticate_gmail", arg |-> NoArgs, outcome |-> "-"]
    /\ UNCHANGED <<beside_backend, spotify_client, auth_runs>>

\* a function of gmail.py or google_calendar.py: authenticate_gmail() before the try
\* block, then its requests and its return value
GoogleCall(name, arg, env, outcome, asked) ==
    /\ pc = "backend"
    /\ LET a == authenticate_gmail(token_file, env)
       IN /\ token_file' = a.token_file
          /\ IF a.raised
             THEN /\ requests' = a.requests
                  /\ returned' = Raise
                  /\ call' = [name |-> name, arg |-> arg, outcome |-> "auth_error"]
             ELSE /\ requests' = a.requests \o asked
                  /\ returned' = Invoke(name, NoArg, PathOf(outcome))
                  /\ call' = [name |-> name, arg |-> arg, outcome |-> outcome]
    /\ UNCHANGED <<beside_backend, spotify_client, auth_runs>>

\* read_emails(context_variables, unread, date_filter=date_filter)
ReadEmails(unread, date_filter, env, outcome) ==
    GoogleCall("read_emails",
               [NoArgs EXCEPT !.unread = unread, !.date_filter = date_filter],
               env, outcome,
               <<ReqQuery("messages.list", read_emails_query(unread, date_filter))>>
                   \o (IF outcome = "ok" THEN Reqs(<<"messages.get">>) ELSE << >>))

\* search_for_emails(context_variables, query, date_filter=date_filter)
SearchForEmails(query, date_filter, env, outcome) ==
    GoogleCall("search_for_emails",
               [NoArgs EXCEPT !.query = query, !.date_filter = date_filter],
               env, outcome,
               <<ReqQuery("messages.list", search_for_emails_query(query, date_filter))>>
                   \o (IF outcome = "ok" THEN Reqs(<<"messages.get">>) ELSE << >>))

\* update_event(context_variables, event_id, ...) on the event the calendar holds
UpdateEvent(event, a, env, outcome) ==
    GoogleCall("update_event", a, env, outcome,
               IF outcome = "get_error" THEN Reqs(<<"events.get">>)
               ELSE <<ReqEvent("events.get", event),
                      ReqEvent("events.update", update_event_body(event, a))>>)

\* a function of spotify.py: get_spotify_client() before the try block
SpotifyCall(name, arg, outcome, asked, path) ==
    /\ pc = "backend"
    /\ LET got == get_spotify_client(spotify_client, outcome = "auth_error")
       IN /\ got.raised = (outcome = "auth_error")
          /\ spotify_client' = got.cache
          /\ auth_runs' = CountAuth(auth_runs, got.runs)
          /\ requests' = IF got.raised THEN << >> ELSE asked
          /\ returned' = Invoke(name, NoArg, IF got.raised THEN "auth_error" ELSE path)
    /\ call' = [name |-> name, arg |-> arg, outcome |-> outcome]
    /\ UNCHANGED <<beside_backend, token_file>>

\* play(context_variables, query, content_type)
Play(query, content_type, outcome) ==
    SpotifyCall("play", [NoArgs EXCEPT !.query = query, !.content_type = content_type],
                outcome, play_requests(content_type, outcome),
                play_path(content_type, outcome))

\* control_playback(context_variables, action)
ControlPlayback(action, outcome) ==
    SpotifyCall("control_playback", [NoArgs EXCEPT !.action = action], outcome,
                control_playback_requests(action), control_playback_path(action, outcome))

\* time passes: the stored access token expires
TokenExpires ==
    /\ pc = "backend"
    /\ token_file.file = "creds"
    /\ ~token_file.expired
    /\ token_file' = [token_file EXCEPT !.expired = TRUE]
    /\ UNCHANGED <<beside_backend, call, returned, requests, spotify_client, auth_runs>>

\* the program after the Agent objects are built (agents.py:176)
Init ==
    /\ pc = "L206"
    /\ functions = InitialFunctions
    /\ active_agent = NoAgent
    /\ message_history = << >>
    /\ context_variables = default_context
    /\ executed = << >>
    /\ loop_turns = 0
    /\ user_visible = "none"
    /\ rendered = NotRendered
    /\ sessions = NoSessions
    /\ call = NoCall
    /\ returned = NotReturned
    /\ spotify_client = NoClient
    /\ auth_runs = 0
    /\ requests = << >>
    /\ token_file = NoTokenFile

Next ==
    \/ AssignBaseFunctions
    \/ AppendTransferBack
    \/ StartSession
    \/ UserInput
    \/ ModelReplies
    \/ ModelRequestsCalls

Spec == Init /\ [][Next]_vars

\* the model always answers a request
FairSpec == Spec /\ WF_vars(ModelReplies \/ ModelRequestsCalls)

NextRefresh ==
    \/ Next
    \/ \E key \in RefreshedKeys : \E value \in RefreshedValues(key) :
          ReplaceContext(key, value)

\* the session with its Context replaced between external turns
SpecRefresh == Init /\ [][NextRefresh]_vars

NextRerun ==
    \/ AssignBaseFunctions
    \/ AppendTransferBack
    \/ \E s \in Specialists : RerunAppendTransferBack(s)

\* registry construction with its registration statements repeated
SpecRerun == Init /\ [][NextRerun]_vars

NextSessions ==
    \/ AssignBaseFunctions
    \/ AppendTransferBack
    \/ \E s \in SessionIds : SessionStart(s)
    \/ \E s \in SessionIds : SessionUserInput(s)
    \/ \E s \in SessionIds : SessionModelReplies(s)
    \/ \E s \in SessionIds : SessionModelRequestsCalls(s)

\* the registry built once, then several sessions side by side in the process
SpecSessions == Init /\ [][NextSessions]_vars

\* the registry as agents.py leaves it
ConstructedFunctions ==
    [a \in Agents |->
        IF a = base_agent THEN BaseFunctions
        ELSE RegisterTransferBack(InitialFunctions[a])]

InitRender ==
    /\ pc = "render"
    /\ functions = ConstructedFunctions
    /\ active_agent = NoAgent
    /\ message_history = << >>
    /\ context_variables \in Contexts
    /\ executed = << >>
    /\ loop_turns = 0
    /\ user_visible = "none"
    /\ rendered = NotRendered
    /\ sessions = NoSessions
    /\ call = NoCall
    /\ returned = NotReturned
    /\ spotify_client = NoClient
    /\ auth_runs = 0
    /\ requests = << >>
    /\ token_file = NoTokenFile

NextRender == \E a \in Agents : \E now \in Clock : ResolveInstructions(a, now)

SpecRender == InitRender /\ [][NextRender]_vars

InitCalls ==
    /\ pc = "calls"
    /\ functions = ConstructedFunctions
    /\ active_agent = NoAgent
    /\ message_history = << >>
    /\ context_variables \in CallContexts
    /\ executed = << >>
    /\ loop_turns = 0
    /\ user_visible = "none"
    /\ rendered = NotRendered
    /\ sessions = NoSessions
    /\ call = NoCall
    /\ returned = NotReturned
    /\ spotify_client = NoClient
    /\ auth_runs = 0
    /\ requests = << >>
    /\ token_file = NoTokenFile

NextCalls ==
    \E name \in CapabilityFunctions \cup TransferFunctions :
    \E arg \in ArgsOf(name) :
    \E outcome \in PathsOf(name) : CallFunction(name, arg, outcome)

\* the functions of the registry called one after another
SpecCalls == InitCalls /\ [][NextCalls]_vars

\* the registry is built; the token file is in any state a run can find it in
InitBackend ==
    /\ pc = "backend"
    /\ functions = ConstructedFunctions
    /\ active_agent = NoAgent
    /\ message_history = << >>
    /\ context_variables = default_context
    /\ executed = << >>
    /\ loop_turns = 0
    /\ user_visible = "none"
    /\ rendered = NotRendered
    /\ sessions = NoSessions
    /\ call = NoBackendCall
    /\ returned = NotReturned
    /\ spotify_client = NoClient
    /\ auth_runs = 0
    /\ requests = << >>
    /\ token_file \in TokenFiles

NextBackend ==
    \/ \E env \in AuthEnvs : AuthenticateGmail(env)
    \/ \E unread \in BOOLEAN : \E date_filter \in DateFilters : \E env \in AuthEnvs :
       \E outcome \in {"ok", "empty", "list_error"} :
            ReadEmails(unread, date_filter, env, outcome)
    \/ \E query \in Queries : \E date_filter \in DateFilters : \E env \in AuthEnvs :
       \E outcome \in {"ok", "empty", "list_error"} :
            SearchForEmails(query, date_filter, env, outcome)
    \/ \E event \in Events : \E a \in UpdateArgs : \E env \in AuthEnvs :
       \E outcome \in {"ok", "get_error", "update_error"} :
            UpdateEvent(event, a, env, outcome)
    \/ \E query \in Queries : \E content_type \in ContentTypes :
       \E outcome \in {"ok", "empty", "search_error", "playback_error", "auth_error"} :
            Play(query, content_type, outcome)
    \/ \E action \in PlaybackActions :
       \E outcome \in {"ok", "playback_error", "auth_error"} :
            ControlPlayback(action, outcome)
    \/ TokenExpires

\* the functions called one after another, with what they ask of their backends
SpecBackend == InitBackend /\ [][NextBackend]_vars

-----------------------------------------------------------------------------
(* State functions the properties read *)

\* agents.py has run to its end
RegistryConstructed == pc \notin {"L206", "L212", "L213", "L214", "L215"}

\* positions of the transfer functions in a's function list
TransfersOf(a) == {i \in DOMAIN functions[a] : functions[a][i] \in TransferFunctions}

\* position of the latest model response in the recorded history (0: none)
LastResponseAt ==
    IF \E i \in DOMAIN message_history : message_history[i].role = "assistant"
    THEN CHOOSE i \in DOMAIN message_history :
            /\ message_history[i].role = "assistant"
            /\ \A j \in DOMAIN message_history :
                  message_history[j].role = "assistant" => j <= i
    ELSE 0

\* the dispatcher has just handled the calls of a model response (and returned or raised)
JustDispatched ==
    /\ pc \in {"awaiting_model", "crashed"}
    /\ loop_turns > 0
    /\ LastResponseAt > 0

\* the calls of the latest model response, and the agent that sent it
LastCalls == message_history[LastResponseAt].tool_calls
Dispatcher ==
    CHOOSE a \in Agents : AgentName(a) = message_history[LastResponseAt].name

\* the observations recorded after the latest model response
Observations ==
    SubSeq(message_history, LastResponseAt + 1, Len(message_history))

LastOf(s) == s[Len(s)]

-----------------------------------------------------------------------------
(* Properties *)

\* C1: once the registry is built the transfer graph is a star: every transfer function in
\* a specialist's list returns the base agent (and each specialist has one), every
\* specialist is returned by exactly one function of the base agent's list, and no function
\* of the base agent's list returns the base agent.
C1_TransferGraphIsStar ==
    RegistryConstructed =>
        /\ \A s \in Specialists :
              /\ TransfersOf(s) # {}
              /\ \A i \in TransfersOf(s) : TransferTarget(functions[s][i]) = base_agent
        /\ \A s \in Specialists :
              Cardinality({i \in TransfersOf(base_agent) :
                              TransferTarget(functions[base_agent][i]) = s}) = 1
        /\ \A i \in TransfersOf(base_agent) :
              TransferTarget(functions[base_agent][i]) # base_agent

\* a session runs on the built registry and has followed an edge of the graph
C1_Witness ==
    /\ RegistryConstructed
    /\ Len(functions[base_agent]) = 4
    /\ active_agent = music_agent
    /\ executed = <<"transfer_to_music_agent">>

\* C2: in every step of a session, active_agent changes only if the step is a dispatcher
\* iteration that invoked a transfer function of the active agent's list; an iteration
\* whose invoked functions are all capability functions, whatever they return, leaves it
\* unchanged; and an iteration that returns with a transfer among its invoked functions
\* changes it.
C2_ActiveAgentChangesOnlyOnTransfer ==
    [][ pc # "main" =>
          /\ active_agent' # active_agent =>
                /\ pc = "awaiting_model"
                /\ \E i \in DOMAIN executed' :
                      executed'[i] \in TransferFunctions \cap Range(functions[active_agent])
          /\ (/\ pc = "awaiting_model"
              /\ \A i \in DOMAIN executed' : executed'[i] \in CapabilityFunctions)
                => active_agent' = active_agent
          /\ (/\ pc = "awaiting_model"
              /\ pc' = "awaiting_model"
              /\ \E i \in DOMAIN executed' : executed'[i] \in TransferFunctions)
                => active_agent' # active_agent ]_vars

\* Email Assistant asked for get_email_by_id("abc123"), the backend failed, the error
\* observation mentions the id and Email Assistant is still active
C2_Witness ==
    /\ JustDispatched
    /\ Dispatcher = email_agent
    /\ executed = <<"get_email_by_id">>
    /\ LastOf(message_history) =
          ToolMsg("get_email_by_id", <<"error", "abc123">>)
    /\ active_agent = email_agent

\* the specialist each transfer function of the base agent names
NamedSpecialist(f) ==
    CASE f = "transfer_to_email_agent" -> "Email Assistant"
      [] f = "transfer_to_calendar_agent" -> "Calendar Assistant"
      [] f = "transfer_to_social_media_agent" -> "Social Media Assistant"
      [] f = "transfer_to_music_agent" -> "Music Assistant"
      [] OTHER -> "None"

\* C3: after the dispatcher handled a response of the base agent that invoked transfer
\* functions, the active agent is the specialist named by the transfer invoked (the last
\* one, if several were), and the hand-off has produced no user-visible reply: all it
\* added to the history are tool observations, one of them naming the new agent.
C3_TransferFromBase ==
    (JustDispatched /\ Dispatcher = base_agent /\ executed # << >>) =>
        /\ AgentName(active_agent) = NamedSpecialist(LastOf(executed))
        /\ active_agent \in Specialists
        /\ user_visible = "none"
        /\ \A i \in DOMAIN Observations : Observations[i].role = "tool"
        /\ \E i \in DOMAIN Observations :
              Observations[i] =
                 ToolMsg(LastOf(executed),
                         <<"assistant", NamedSpecialist(LastOf(executed))>>)

\* base agent, one call transfer_to_email_agent: Email Assistant is active, nothing replied
C3_Witness ==
    /\ JustDispatched
    /\ Dispatcher = base_agent
    /\ LastCalls = <<[name |-> "transfer_to_email_agent", arg |-> NoArg]>>
    /\ executed = <<"transfer_to_email_agent">>
    /\ AgentName(active_agent) = "Email Assistant"
    /\ user_visible = "none"

\* the names of the requested calls that are in fns
RECURSIVE InList(_, _)
InList(calls, fns) ==
    IF calls = << >> THEN << >>
    ELSE IF Head(calls).name \in Range(fns)
         THEN <<Head(calls).name>> \o InList(Tail(calls), fns)
         ELSE InList(Tail(calls), fns)

\* C4 as claimed: whenever the dispatcher has handled a response requesting calls, every
\* requested function of the agent's list was executed, in the order requested, the
\* history holds one observation per call in that order, and if a transfer was among them
\* the active agent is its target.
C4_AsClaimed ==
    (JustDispatched /\ LastCalls # << >>) =>
        /\ executed = InList(LastCalls, functions[Dispatcher])
        /\ Len(Observations) = Len(LastCalls)
        /\ \A i \in DOMAIN Observations :
              /\ Observations[i].role = "tool"
              /\ Observations[i].name = LastCalls[i].name
        /\ \A i \in DOMAIN executed :
              (executed[i] \in TransferFunctions
                 /\ \A j \in DOMAIN executed : j > i => executed[j] \notin TransferFunctions)
                => active_agent = TransferTarget(executed[i])

CalendarFunctions ==
    {"list_upcoming_events", "create_event", "delete_event", "update_event"}

\* C5: whenever the dispatcher has handled a response, every function it invoked is in
\* the function list of the agent that sent the response (never a capability function
\* for the base agent, never a Calendar function for the Email Assistant), and every
\* requested name outside that list got the "tool not found" observation and no result.
C5_ForeignCallsRejected ==
    JustDispatched =>
        /\ \A i \in DOMAIN executed :
              /\ executed[i] \in Range(functions[Dispatcher])
              /\ Dispatcher = base_agent => executed[i] \notin CapabilityFunctions
              /\ Dispatcher = email_agent => executed[i] \notin CalendarFunctions
        /\ pc = "awaiting_model" =>
              \A i \in DOMAIN LastCalls :
                  LastCalls[i].name \notin Range(functions[Dispatcher]) =>
                      /\ i <= Len(Observations)
                      /\ Observations[i] =
                            ToolMsg(LastCalls[i].name, NotFound(LastCalls[i].name))

\* Email Assistant was asked for a Calendar function and a function of its own: only the
\* second ran
C5_Witness ==
    /\ JustDispatched
    /\ Dispatcher = email_agent
    /\ Len(LastCalls) = 2
    /\ LastCalls[1].name = "list_upcoming_events"
    /\ executed = <<"read_emails">>
    /\ Observations[1] = ToolMsg("list_upcoming_events", NotFound("list_upcoming_events"))

\* C6 as claimed: no exception of a capability function reaches the dispatcher; whatever
\* step of the function fails, its authentication step included, the dispatcher gets a
\* payload.
C6_AsClaimed == pc # "crashed"

\* C7 as claimed: however often the registration statements are executed, every
\* specialist's list holds transfer_back_to_base_agent exactly once.
C7_AsClaimed ==
    RegistryConstructed =>
        \A s \in Specialists :
            Cardinality({i \in DOMAIN functions[s] :
                            functions[s][i] = "transfer_back_to_base_agent"}) = 1

\* the defaults the documentation gives for the context-derived fields
DocumentedDefault(key) ==
    CASE key = "user_name" -> "User"
      [] key \in {"preferred_language", "tweet_preferred_language"} -> "English"
      [] key \in {"location", "email", "twitter_username"} -> "N/A"

\* C8 as claimed: instructions resolved with an empty Context carry the documented default
\* in every context-derived field (the clock value of current_datetime aside).
C8_AsClaimed ==
    (rendered.agent # NoAgent /\ DOMAIN context_variables = {}) =>
        \A key \in DOMAIN rendered.fields \ {"current_datetime"} :
            rendered.fields[key] = DocumentedDefault(key)

\* C9 as claimed: every external turn ends: a dispatcher waiting for a model response
\* eventually leaves the loop.
C9_AsClaimed == (pc = "awaiting_model") ~> (pc # "awaiting_model")

\* C10 as claimed: some bound on the model responses of one external turn is enforced:
\* once it is reached the dispatcher requests no further model response.
C10_AsClaimed ==
    \E bound \in 1..MaxLoopTurns :
        loop_turns >= bound => pc # "awaiting_model"

\* position of the last message of h that is no tool observation (0: none)
LastSpokenAt(h) ==
    IF \E i \in DOMAIN h : h[i].role # "tool"
    THEN CHOOSE i \in DOMAIN h :
            /\ h[i].role # "tool"
            /\ \A j \in DOMAIN h : h[j].role # "tool" => j <= i
    ELSE 0

\* h2 is h with one user or assistant message and its observations appended, seen through
\* the window of the MaxHistory most recent messages: nothing of h that is still in the
\* window was removed, reordered or rewritten, and nothing left the window before it was full
Advanced(h, h2) ==
    LET from == LastSpokenAt(h2)
        appended == Len(h2) + 1 - from
        all == Len(h) + appended
        dropped == IF all > MaxHistory THEN all - MaxHistory ELSE 0
    IN /\ from > 0
       /\ Len(h2) + dropped = all
       /\ \A i \in DOMAIN h : i > dropped => h2[i - dropped] = h[i]

\* C11: message_history is append-only: every step of the session (a user message, a model
\* reply, a response with capability calls or transfers, also one that hands off to another
\* agent or is aborted) leaves the recorded history as a prefix of the new one, and no
\* other step changes it.
C11_HistoryAppendOnly ==
    [][ IF pc \in {"awaiting_user", "awaiting_model"}
        THEN Advanced(message_history, message_history')
        ELSE message_history' = message_history ]_vars

\* the history of a hand-off from the base agent to the Email Assistant: the user message,
\* the response requesting the transfer and its observation, in that order
C11_Witness ==
    /\ active_agent = email_agent
    /\ message_history =
          <<UserMsg,
            CallsMsg(base_agent, <<[name |-> "transfer_to_email_agent", arg |-> NoArg]>>),
            ToolMsg("transfer_to_email_agent", <<"assistant", "Email Assistant">>)>>

\* C12: sessions share no state: a step that changes one session's state (its active
\* agent, history or Context) changes no other session's state and no agent's function
\* list, so no session can observe it.
C12_SessionsIsolated ==
    [][ \A s \in SessionIds :
          sessions'[s] # sessions[s] =>
              /\ \A t \in SessionIds \ {s} : sessions'[t] = sessions[t]
              /\ functions' = functions ]_vars

\* two sessions side by side: one was handed to the Email Assistant and ran a function
\* there, the other is still with the base agent and its own history
C12_Witness ==
    /\ sessions[1].active_agent = email_agent
    /\ sessions[1].message_history[Len(sessions[1].message_history)] =
          ToolMsg("read_emails", <<"data", NoArg>>)
    /\ sessions[2].active_agent = base_agent
    /\ sessions[2].message_history = <<UserMsg, ReplyMsg(base_agent)>>
    /\ sessions[2].context_variables = default_context

\* C13: every path on which a capability function returns gives one <result> payload
\* tagged as a success (<message> or a data element) or as an error (<error>), never None,
\* an Agent or an untagged string: an error tag on the paths that failed, a success tag on
\* the others.
C13_ReturnPathsTagged ==
    (call.name \in CapabilityFunctions /\ returned.kind # "raise") =>
        /\ returned.kind = "str"
        /\ returned.tag \in {"message", "data", "error"}
        /\ call.outcome \in {"backend_error", "invalid_argument"} => returned.tag = "error"
        /\ call.outcome = "ok" => returned.tag \in {"message", "data"}

\* search found items and returned them as data
C13_Witness ==
    /\ call.name = "search"
    /\ call.outcome = "ok"
    /\ returned = Str("data", NoArg)

\* the agent each transfer function is documented to return
DocumentedTarget(f) ==
    CASE f = "transfer_to_email_agent" -> email_agent
      [] f = "transfer_to_calendar_agent" -> calendar_agent
      [] f = "transfer_to_social_media_agent" -> social_media_agent
      [] f = "transfer_to_music_agent" -> music_agent
      [] f = "transfer_back_to_base_agent" -> base_agent

\* C14: a call of a transfer function, in whatever state and however often it was called
\* before, takes no argument, returns its one target agent as an Agent (never a text) and
\* changes nothing else: no function list, no Context.
C14_TransfersArePureLookups ==
    [][ call'.name \in TransferFunctions =>
          /\ call'.arg = NoArg
          /\ returned' = AgentRef(DocumentedTarget(call'.name))
          /\ functions' = functions
          /\ context_variables' = context_variables
          /\ spotify_client' = spotify_client ]_vars

\* transfer_back_to_base_agent called after a transfer and after Spotify calls that failed
\* to authenticate: it returns the base agent
C14_Witness ==
    /\ call.name = "transfer_back_to_base_agent"
    /\ returned = AgentRef(base_agent)
    /\ auth_runs = MaxAuthRuns
    /\ functions[email_agent] =
          <<"read_emails", "get_email_by_id", "search_for_emails", "write_email",
            "transfer_back_to_base_agent">>

\* C16: a call of a capability function, whether it succeeds, fails or raises, leaves the
\* Context it was handed as it was: no entry added, removed or changed.
C16_ContextReadOnly ==
    [][ call'.name \in CapabilityFunctions => context_variables' = context_variables ]_vars

\* write_email ran with a Context that has no email entry and sent the mail: the Context
\* still has none
C16_Witness ==
    /\ call.name = "write_email"
    /\ returned = Str("message", NoArg)
    /\ DOMAIN context_variables = {"user_name"}

\* C17: when the backend request of get_email_by_id(email_id) fails, the function returns
\* an error payload that mentions email_id.
C17_ErrorMentionsEmailId ==
    (call.name = "get_email_by_id" /\ call.outcome = "backend_error") =>
        /\ returned.kind = "str"
        /\ returned.tag = "error"
        /\ returned.mentions = call.arg

\* get_email_by_id("abc123") with the backend answering not-found
C17_Witness ==
    /\ call = [name |-> "get_email_by_id", arg |-> "abc123", outcome |-> "backend_error"]
    /\ returned = Str("error", "abc123")

\* C18 as claimed: over any sequence of Spotify calls the authentication procedure runs at
\* most once, also when an earlier run failed.
C18_AsClaimed == auth_runs <= 1

\* the context-derived fields of each agent's prompt
PromptFields(a) ==
    CASE a = base_agent -> {"user_name", "preferred_language", "location", "current_datetime"}
      [] a = email_agent -> {"user_name", "email", "preferred_language"}
      [] a = calendar_agent ->
            {"user_name", "current_datetime", "preferred_language", "location"}
      [] a = social_media_agent ->
            {"user_name", "twitter_username", "tweet_preferred_language"}
      [] a = music_agent -> {"user_name", "preferred_language"}

\* C15: every model invocation gets the prompt of the agent active at that invocation,
\* rendered from the Context as it is then (each field the Context has carries the
\* Context's present value), and only functions of that agent's list are run for it: so
\* after a transfer the next invocation is the new agent's, and after an entry of the
\* Context is replaced the next prompt embeds the new value.
C15_PromptRenderedAfresh ==
    [][ pc = "awaiting_model" =>
          /\ rendered'.agent = active_agent
          /\ DOMAIN rendered'.fields = PromptFields(active_agent)
          /\ \A k \in DOMAIN rendered'.fields :
                k \in DOMAIN context_variables =>
                    rendered'.fields[k] = context_variables[k]
          /\ \A i \in DOMAIN executed' :
                executed'[i] \in Range(functions[active_agent]) ]_vars

\* current_datetime and preferred_language were replaced, the base agent handed the
\* session to the Calendar Assistant, and the very next model invocation, a reply, got the
\* Calendar Assistant's prompt with both new values
C15_Witness ==
    /\ context_variables["current_datetime"] = "t1"
    /\ context_variables["preferred_language"] = "Polish"
    /\ message_history =
          <<CallsMsg(base_agent, <<[name |-> "transfer_to_calendar_agent", arg |-> NoArg]>>),
            ToolMsg("transfer_to_calendar_agent", <<"assistant", "Calendar Assistant">>),
            ReplyMsg(calendar_agent)>>
    /\ rendered.agent = calendar_agent
    /\ rendered.fields["current_datetime"] = "t1"
    /\ rendered.fields["preferred_language"] = "Polish"

\* the menu each agent is meant to offer
IntendedMenu(a) ==
    CASE a = base_agent ->
            <<"transfer_to_email_agent", "transfer_to_calendar_agent",
              "transfer_to_social_media_agent", "transfer_to_music_agent">>
      [] a = email_agent ->
            <<"read_emails", "get_email_by_id", "search_for_emails", "write_email",
              "transfer_back_to_base_agent">>
      [] a = calendar_agent ->
            <<"list_upcoming_events", "create_event", "delete_event", "update_event",
              "transfer_back_to_base_agent">>
      [] a = social_media_agent -> <<"send_tweet", "transfer_back_to_base_agent">>
      [] a = music_agent ->
            <<"play", "search", "get_current_track", "control_playback",
              "transfer_back_to_base_agent">>

\* C19: once the registry is built, and for as long as the session runs, every agent's
\* function list is exactly its menu: the four transfers and no capability function for
\* the base agent, its own capability functions followed by transfer_back_to_base_agent
\* for each specialist; no capability function is in two lists and no name is twice in
\* one list.
C19_ExactMenus ==
    RegistryConstructed =>
        /\ \A a \in Agents : functions[a] = IntendedMenu(a)
        /\ \A a \in Agents : \A b \in Agents \ {a} :
              Range(functions[a]) \cap Range(functions[b]) \cap CapabilityFunctions = {}
        /\ \A a \in Agents : Cardinality(Range(functions[a])) = Len(functions[a])
        /\ Range(functions[base_agent]) \cap CapabilityFunctions = {}

\* the Music Assistant is active in a session on the built registry and has run play
C19_Witness ==
    /\ RegistryConstructed
    /\ pc = "awaiting_model"
    /\ active_agent = music_agent
    /\ executed = <<"play">>
    /\ functions[music_agent][5] = "transfer_back_to_base_agent"

\* C20: a session starts with the base agent active; whatever turns and transfers follow,
\* the active agent is one of the five agents of the registry, and their names (Base,
\* Email, Calendar, Social Media, Music Assistant) are pairwise distinct.
C20_ActiveAgentInRegistry ==
    /\ (pc = "awaiting_user" /\ message_history = << >>) => active_agent = base_agent
    /\ pc \in {"awaiting_user", "awaiting_model", "crashed"} =>
          /\ active_agent \in
                {base_agent, email_agent, calendar_agent, social_media_agent, music_agent}
          /\ AgentName(active_agent) \in
                {"Base Assistant", "Email Assistant", "Calendar Assistant",
                 "Social Media Assistant", "Music Assistant"}
    /\ \A a \in Agents : \A b \in Agents \ {a} : AgentName(a) # AgentName(b)
    /\ Cardinality(Agents) = 5

\* after transfers the Social Media Assistant has answered the user and is still active
C20_Witness ==
    /\ pc = "awaiting_user"
    /\ active_agent = social_media_agent
    /\ message_history[Len(message_history)] = ReplyMsg(social_media_agent)
    /\ message_history[1] =
          ToolMsg("transfer_to_social_media_agent", <<"assistant", "Social Media Assistant">>)

\* the request of the last invocation with the given operation
Asked(op) == requests[CHOOSE i \in DOMAIN requests : requests[i].op = op]

\* read_emails called with a date_filter sends a query restricted by it
ReadEmailsRestrictsByDate ==
    (call.name = "read_emails" /\ Truthy(call.arg.date_filter)
        /\ "messages.list" \in Ops(requests)) =>
          /\ call.arg.date_filter \in Range(Asked("messages.list").q)
          /\ Asked("messages.list").q # read_emails_query(call.arg.unread, None)

\* C21: search_for_emails called with a date_filter sends the mail backend a query
\* restricted by that date filter, as read_emails does; the query is never the one the
\* same call sends without a date_filter.
C21_AsClaimed ==
    (call.name = "search_for_emails" /\ Truthy(call.arg.date_filter)
        /\ "messages.list" \in Ops(requests)) =>
          /\ call.arg.date_filter \in Range(Asked("messages.list").q)
          /\ Asked("messages.list").q # search_for_emails_query(call.arg.query, None)

\* the value an event holds for a parameter of update_event
FieldOf(event, f) ==
    CASE f = "summary" -> event.summary
      [] f = "start_time" -> event.start.dateTime
      [] f = "end_time" -> event.end.dateTime
      [] f = "description" -> event.description
      [] f = "location" -> event.location
      [] f = "attendees" -> event.attendees

\* the value a call gives for a parameter: the string itself, and for attendees the
\* addresses between the commas
GivenFor(a, f) ==
    IF f = "attendees"
    THEN [i \in DOMAIN Split(a.attendees) |-> [email |-> Split(a.attendees)[i]]]
    ELSE a[f]

\* C22: in the body update_event writes back for an existing event, every field whose
\* argument is omitted keeps the value of the fetched event and every field whose
\* argument is provided holds the given value.
C22_AsClaimed ==
    (call.name = "update_event" /\ "events.update" \in Ops(requests)) =>
        \A f \in EventFields :
            FieldOf(Asked("events.update").body, f) =
                IF f \in call.arg.provided THEN GivenFor(call.arg, f)
                ELSE FieldOf(Asked("events.get").body, f)

\* the calls that change what is playing
PlaybackChanging == {"start_playback", "pause_playback", "next_track", "previous_track"}

\* C23: when play or control_playback returns an error because its argument is invalid
\* or because the search found no item, that invocation has issued no playback-changing
\* call; play with an invalid content_type has not searched either.
C23_NoPlaybackOnRejectedCall ==
    /\ (call.name = "play" /\ returned.kind = "str"
            /\ (call.arg.content_type \notin {"track", "album", "artist", "playlist"}
                   \/ call.outcome = "empty")) =>
          /\ returned.tag = "error"
          /\ Ops(requests) \cap PlaybackChanging = {}
    /\ (call.name = "play" /\ returned.kind = "str"
            /\ call.arg.content_type \notin {"track", "album", "artist", "playlist"}) =>
          "search" \notin Ops(requests)
    /\ (call.name = "control_playback" /\ returned.kind = "str"
            /\ call.arg.action \notin {"play", "pause", "next", "previous"}) =>
          /\ returned.tag = "error"
          /\ Ops(requests) \cap PlaybackChanging = {}

\* play has searched for an album, found none and returned an error
C23_Witness ==
    /\ call.name = "play"
    /\ call.arg.content_type = "album"
    /\ call.outcome = "empty"
    /\ returned.tag = "error"
    /\ Ops(requests) = {"search"}
    /\ spotify_client # NoClient

\* the step is an invocation of authenticate_gmail, on its own or by a function
Authenticating ==
    /\ call'.name \in {"authenticate_gmail", "read_emails", "search_for_emails",
                        "update_event"}
    /\ ~(token_file' # token_file /\ token_file'.expired)

\* C24: authenticate_gmail asks the user for a code only when there is no token file,
\* the token file is invalid (and it is then deleted), or the stored credentials are
\* invalid and cannot be refreshed; valid stored credentials are used as they are;
\* expired ones with a refresh token are refreshed without a prompt; a successful
\* interactive authorization writes the token file, and the call after it does not
\* prompt.
C24_PromptsOnlyWhenNeeded ==
    [][ Authenticating =>
          /\ "input" \in Ops(requests') =>
                \/ token_file.file = "absent"
                \/ /\ token_file.file = "malformed"
                   /\ "os.remove" \in Ops(requests')
                   /\ token_file'.file # "malformed"
                \/ /\ token_file.file = "creds"
                   /\ ~Valid(token_file)
                   /\ ~(token_file.expired /\ token_file.refresh_token)
          /\ (token_file.file = "creds" /\ Valid(token_file)) =>
                /\ Ops(requests') \cap {"input", "refresh", "os.remove", "write_token"} = {}
                /\ token_file' = token_file
          /\ (token_file.file = "creds" /\ token_file.expired /\ token_file.refresh_token) =>
                /\ "refresh" \in Ops(requests')
                /\ "input" \notin Ops(requests')
          /\ ("input" \in Ops(requests') /\ returned'.kind # "raise") =>
                /\ "write_token" \in Ops(requests')
                /\ token_file'.file = "creds"
                /\ Valid(token_file')
          /\ ("write_token" \in Ops(requests) /\ Valid(token_file)) =>
                "input" \notin Ops(requests') ]_vars

\* an invalid token file was deleted, the user was asked for a code and the granted
\* credentials were written
C24_Witness ==
    /\ call.name = "authenticate_gmail"
    /\ returned.kind # "raise"
    /\ {"os.remove", "input", "write_token"} \subseteq Ops(requests)
    /\ token_file.file = "creds"
    /\ Valid(token_file)

====
